---- MODULE Spec2Model ----
(***************************************************************************)
(* Model of the Pioneer AVR entity layer of ha-pioneer_async:               *)
(*   custom_components/pioneer_async/entity_base.py                         *)
(*       PioneerEntityBase.available, PioneerEntityBase.pioneer_command,    *)
(*       PioneerTunerEntity.available                                       *)
(*   custom_components/pioneer_async/media_player.py                        *)
(*       PioneerZone properties and the async_* command methods             *)
(*                                                                          *)
(* The PioneerAVR object (package aiopioneer) is the external device        *)
(* session: its attribute dictionaries are the state variables, and its     *)
(* command coroutines answer nondeterministically.                          *)
(***************************************************************************)
EXTENDS Integers, Sequences, FiniteSets, TLC

(***************************************************************************)
(* Bounds of the model.                                                     *)
(***************************************************************************)
\* largest max_count a direct caller of pioneer_command passes
MaxMaxCount == 5
\* smallest max_count a direct caller passes is -MinMaxCountNeg
MinMaxCountNeg == 1
\* largest raw volume and max_volume the device reports
MaxVolume == 1
\* largest raw volume and max_volume of a stored state that need not satisfy
\* volume <= max_volume
MaxRawVolume == 3

(***************************************************************************)
(* Program constants.                                                       *)
(***************************************************************************)
\* def pioneer_command(self, aw_f, max_count: int = 4)
DefaultMaxCount == 4

\* the parameters pioneer_command accepts besides self
Signature == {"aw_f", "max_count"}

\* python's None as dict.get() of a missing key returns it; a stored value v
\* is <<v>>
None == <<>>
Some(v) == <<v>>

\* aiopioneer.const.Zones members the AVR was discovered with (pioneer.zones);
\* Z1 is always among them (async_setup_entry raises PlatformNotReady if not)
zones == {"Z1", "Z2"}
\* the values of an entity's self.zone: a discovered zone, a zone the AVR
\* does not have ("Z3"), or "none" for a device-wide entity (zone=None)
EntityZones == zones \cup {"Z3", "none"}

SOURCE_TUNER == "02"
Sources == {SOURCE_TUNER, "01"}

\* the tasks (service calls) that may run a command method
Calls == {"t1", "t2"}
\* the task of the sequential specification
Solo == {"t1"}

\* what awaiting a PioneerAVR command coroutine yields when it returns
Returned == {"False", "None", "True", "0", "resp"}

VARIABLES
    available,   \* pioneer.available
    power,       \* pioneer.power      : zone -> Some(bool), None if absent
    volume,      \* pioneer.volume     : zone -> Some(int), None if absent
    max_volume,  \* pioneer.max_volume : zone -> Some(int), None if absent
    mute,        \* pioneer.mute       : zone -> Some(bool), None if absent
    source,      \* pioneer.source     : zone -> Some(id), None if absent
    params,      \* pioneer.get_params()
    task         \* per call of a command method: its position and locals

vars == <<available, power, volume, max_volume, mute, source, params, task>>
store == <<power, volume, max_volume, mute, source>>

(***************************************************************************)
(* One call of a command method.                                            *)
(*   pc        idle | test (about to evaluate the while condition) |        *)
(*             await (inside await aw_f()) | sleep (inside asyncio.sleep) | *)
(*             done                                                         *)
(*   name      aw_f.__name__                                                *)
(*   passes    TRUE iff the closure returns what the PioneerAVR call        *)
(*             returned (a closure without return yields None)              *)
(*   broken    TRUE iff the closure raises before reaching the AVR          *)
(*   intent    how media_player.py calls pioneer_command: "repeat" with     *)
(*             repeat=True, "single" without it; "direct" for a call that   *)
(*             passes max_count                                             *)
(*   invoked, slept, warned, results   history of the call                  *)
(*   errors    number of _LOGGER.error calls the call made                  *)
(*   exc       what reaches the caller: "none" while running or after a     *)
(*             normal return, else the exception type                       *)
(*   msg       the exception's message, cause its __cause__                 *)
(*   down      TRUE iff pioneer.available was false when the call began     *)
(*             and has been false ever since                                *)
(*   cancelled TRUE iff the task running the call was cancelled             *)
(*   value     what a property read returned, None before                   *)
(***************************************************************************)
NoMsg == [command |-> "", text |-> "", detail |-> ""]

IdleTask ==
    [pc |-> "idle", name |-> "", passes |-> FALSE, broken |-> FALSE,
     intent |-> "", max_count |-> 0, count |-> 0, invoked |-> 0, slept |-> 0,
     warned |-> 0, errors |-> 0, results |-> <<>>, exc |-> "none",
     msg |-> NoMsg, cause |-> "none", down |-> FALSE, cancelled |-> FALSE,
     value |-> None]

\* the state once the platform is set up, nothing reported yet. The entities
\* are taken as constructed, with self.pioneer and self.zone set
\* (PioneerZone.__init__ hands options to PioneerEntityBase.__init__ as an
\* extra positional argument, which that signature does not take; the
\* properties and command methods modelled here do not depend on it).
Init ==
    /\ available \in BOOLEAN
    /\ power = [z \in zones |-> None]
    /\ volume = [z \in zones |-> None]
    /\ max_volume \in [zones -> {None, Some(MaxVolume)}]
    /\ mute = [z \in zones |-> None]
    /\ source = [z \in zones |-> None]
    /\ params \in [volume_step_only : BOOLEAN, disable_auto_query : BOOLEAN]
    /\ task = [c \in Calls |-> IdleTask]

(***************************************************************************)
(* PioneerEntityBase.pioneer_command                                        *)
(***************************************************************************)
\* binding the call's arguments to the signature: a keyword that is no
\* parameter raises TypeError before the body runs
BindsOk(kwargs) == kwargs \subseteq Signature

\* while count < max_count and ...
LoopCondOffByOne(count, max_count) == count <= max_count
LoopCond(count, max_count) == count < max_count

\* ... and await aw_f() is False
IsFalseFalsy(v) == v \in {"False", "None", "0"}
IsFalse(v) == v = "False"

\* if count >= max_count: raise ServiceValidationError(... unavailable)
ExhaustedCondEarly(count, max_count) == count + 1 >= max_count
ExhaustedCond(count, max_count) == count >= max_count

\* f"AVR command {aw_f.__name__} unavailable"
UnavailableMsg(name) == [command |-> name, text |-> "unavailable", detail |-> ""]
\* f"AVR command {aw_f.__name__} failed: {exc}"; detail stands for str(exc)
FailedMsg(name, detail) == [command |-> name, text |-> "failed", detail |-> detail]

\* except Exception as exc: raise ServiceValidationError(...) from exc
Wrapped(t, cause, detail) ==
    [t EXCEPT !.pc = "done", !.exc = "ServiceValidationError",
              !.msg = FailedMsg(t.name, detail), !.cause = cause]

\* the error of line 72 leaving pioneer_command as raised
RaiseUnavailableRaw(t) ==
    [t EXCEPT !.pc = "done", !.exc = "ServiceValidationError",
              !.msg = UnavailableMsg(t.name)]
\* line 71-72 sit inside the try block, so the handler of line 73 catches
\* the error they raise
RaiseUnavailable(t) ==
    Wrapped(t, "ServiceValidationError", UnavailableMsg(t.name).text)

\* leaving the while loop: lines 71-76
AfterLoop(t) ==
    IF ExhaustedCond(t.count, t.max_count)
    THEN RaiseUnavailable(t)
    ELSE [t EXCEPT !.pc = "done"]

\* an exception out of await aw_f(): not retried, wrapped at once
OnFaultRetried(t) == [t EXCEPT !.pc = "sleep"]
OnFault(t) == Wrapped(t, "fault", "fault")

\* a command method calls self.pioneer_command(aw_f, **kwargs)
Begin(c, name, passes, broken, intent, kwargs, max_count) ==
    /\ task[c].pc \in {"idle", "done"}
    /\ task' = [task EXCEPT ![c] =
          LET t == [IdleTask EXCEPT !.name = name, !.passes = passes,
                                    !.broken = broken, !.intent = intent,
                                    !.down = ~available]
          IN IF BindsOk(kwargs)
             THEN [t EXCEPT !.pc = "test", !.max_count = max_count]
             ELSE [t EXCEPT !.pc = "done", !.exc = "TypeError"]]
    /\ UNCHANGED <<available, store, params>>

\* evaluating the while condition: either aw_f() is called or the loop ends
Test(c) ==
    /\ task[c].pc = "test"
    /\ task' = [task EXCEPT ![c] =
          IF LoopCond(@.count, @.max_count)
          THEN [@ EXCEPT !.pc = "await", !.invoked = @ + 1]
          ELSE AfterLoop(@)]
    /\ UNCHANGED <<available, store, params>>

\* what the closure hands back for what the PioneerAVR coroutine returned
ClosureValue(t, r) == IF t.passes THEN r ELSE "None"

\* a completed command writing the state it expects into pioneer.power
ReturnWritesPower(c) ==
    /\ task[c].pc = "await"
    /\ ~task[c].broken
    /\ \E r \in Returned :
        LET v == ClosureValue(task[c], r)
            t == [task[c] EXCEPT !.results = Append(@, v)]
        IN task' = [task EXCEPT ![c] =
              IF IsFalse(v) THEN [t EXCEPT !.pc = "sleep"] ELSE AfterLoop(t)]
    /\ power' = [z \in zones |-> <<TRUE>>]
    /\ UNCHANGED <<available, volume, max_volume, mute, source, params>>

\* aw_f() completes with a value
Return(c) ==
    /\ task[c].pc = "await"
    /\ ~task[c].broken
    /\ \E r \in Returned :
        LET v == ClosureValue(task[c], r)
            t == [task[c] EXCEPT !.results = Append(@, v)]
        IN task' = [task EXCEPT ![c] =
              IF IsFalse(v) THEN [t EXCEPT !.pc = "sleep"] ELSE AfterLoop(t)]
    /\ UNCHANGED <<available, store, params>>

\* aw_f() raises an Exception
Raise(c) ==
    /\ task[c].pc = "await"
    /\ task' = [task EXCEPT ![c] =
          OnFault([@ EXCEPT !.results = Append(@, "raise")])]
    /\ UNCHANGED <<available, store, params>>

\* the sleep without the count += 1 that follows it
WakeNoIncrement(c) ==
    /\ task[c].pc = "sleep"
    /\ task' = [task EXCEPT ![c] = [@ EXCEPT !.pc = "test", !.slept = @ + 1]]
    /\ UNCHANGED <<available, store, params>>

\* count kept where every running call sees it
WakeShared(c) ==
    /\ task[c].pc = "sleep"
    /\ task' = [d \in Calls |->
          IF d = c
          THEN [task[d] EXCEPT !.pc = "test", !.slept = @ + 1, !.count = @ + 1,
                               !.warned = IF task[c].count + 1 < task[c].max_count
                                          THEN @ + 1 ELSE @]
          ELSE IF task[d].pc \in {"test", "await", "sleep"}
               THEN [task[d] EXCEPT !.count = @ + 1]
               ELSE task[d]]
    /\ UNCHANGED <<available, store, params>>

\* asyncio.sleep(1) completes; count += 1; warning if count < max_count
Wake(c) ==
    /\ task[c].pc = "sleep"
    /\ task' = [task EXCEPT ![c] =
          [@ EXCEPT !.pc = "test", !.slept = @ + 1, !.count = @ + 1,
                    !.warned = IF task[c].count + 1 < task[c].max_count
                               THEN @ + 1 ELSE @]]
    /\ UNCHANGED <<available, store, params>>

\* the cancellation taken for a failed attempt and retried
OnCancelRetried(t) == [t EXCEPT !.pc = "sleep", !.cancelled = TRUE]
\* asyncio.CancelledError thrown into the await the call is suspended in: it
\* is a BaseException, which `except Exception` of line 73 does not catch,
\* so it leaves pioneer_command as it is
OnCancel(t) ==
    [t EXCEPT !.pc = "done", !.exc = "CancelledError", !.cancelled = TRUE]

\* the caller cancels the task while it is suspended in await aw_f() or in
\* await asyncio.sleep(1)
Cancel(c) ==
    /\ task[c].pc \in {"await", "sleep"}
    /\ task' = [task EXCEPT ![c] = OnCancel(@)]
    /\ UNCHANGED <<available, store, params>>

\* a caller that passes max_count: pioneer_command(aw_f, max_count)
pioneer_command(c) ==
    \E n \in (0 - MinMaxCountNeg) .. MaxMaxCount :
        Begin(c, "aw_f", TRUE, FALSE, "direct", {"aw_f", "max_count"}, n)

(***************************************************************************)
(* PioneerZone command methods (media_player.py)                            *)
(***************************************************************************)
\* await self.pioneer_command(f, repeat=True), f without a return statement
Repeat(c, name) ==
    Begin(c, name, FALSE, FALSE, "repeat", {"aw_f", "repeat"}, DefaultMaxCount)

\* await self.pioneer_command(f), f without a return statement
Single(c, name) ==
    Begin(c, name, FALSE, FALSE, "single", {"aw_f"}, DefaultMaxCount)

async_turn_on(c) == Repeat(c, "turn_on")
async_turn_off(c) == Repeat(c, "turn_off")
async_select_source(c) == Repeat(c, "select_source")
async_volume_up(c) == Single(c, "volume_up")
async_volume_down(c) == Single(c, "volume_down")
async_media_previous_track(c) == Single(c, "tuner_previous_preset")

\* tuner_next_preset returns what pioneer.tuner_next_preset() returned
async_media_next_track(c) ==
    Begin(c, "tuner_next_preset", TRUE, FALSE, "single", {"aw_f"}, DefaultMaxCount)

\* max_volume is read before the closure is built; round(volume * None)
\* raises TypeError inside the closure
async_set_volume_level(c, z) ==
    LET broken == max_volume[z] = None
    IN IF params.volume_step_only
       THEN Begin(c, "set_volume_level", FALSE, broken, "single", {"aw_f"},
                  DefaultMaxCount)
       ELSE Begin(c, "set_volume_level", FALSE, broken, "repeat",
                  {"aw_f", "repeat"}, DefaultMaxCount)

async_mute_volume(c) == Repeat(c, "mute_volume")
async_select_sound_mode(c) == Repeat(c, "select_sound_mode")

\* resp = await self.pioneer_command(send_command, command=command)
async_send_command(c) ==
    Begin(c, "send_command", TRUE, FALSE, "single", {"aw_f", "command"},
          DefaultMaxCount)

async_set_panel_lock(c) == Single(c, "set_panel_lock")
async_set_remote_lock(c) == Single(c, "set_remote_lock")
async_set_dimmer(c) == Single(c, "set_dimmer")
async_set_tone_settings(c) == Repeat(c, "set_tone_settings")
async_select_tuner_band(c) == Repeat(c, "select_tuner_band")
async_set_fm_tuner_frequency(c) == Repeat(c, "set_fm_tuner_frequency")
async_set_am_tuner_frequency(c) == Repeat(c, "set_am_tuner_frequency")
async_select_tuner_preset(c) == Repeat(c, "select_tuner_preset")
async_set_channel_levels(c) == Repeat(c, "set_channel_levels")

(***************************************************************************)
(* The device session (aiopioneer) writing the PioneerAVR attributes        *)
(***************************************************************************)
SetAvailable ==
    /\ available' = ~available
    /\ task' = [c \in Calls |-> [task[c] EXCEPT !.down = @ /\ ~available']]
    /\ UNCHANGED <<store, params>>

\* a device report that wipes another attribute of the zone
ReportPowerResets(z) ==
    /\ \E b \in BOOLEAN : power' = [power EXCEPT ![z] = Some(b)]
    /\ volume' = [volume EXCEPT ![z] = None]
    /\ UNCHANGED <<available, max_volume, mute, source, params, task>>

ReportPower(z) ==
    /\ \E b \in BOOLEAN : power' = [power EXCEPT ![z] = Some(b)]
    /\ UNCHANGED <<available, volume, max_volume, mute, source, params, task>>

ReportVolume(z) ==
    /\ \E v \in 0 .. MaxVolume : volume' = [volume EXCEPT ![z] = Some(v)]
    /\ UNCHANGED <<available, power, max_volume, mute, source, params, task>>

ReportMaxVolume(z) ==
    /\ max_volume' = [max_volume EXCEPT ![z] = Some(MaxVolume)]
    /\ UNCHANGED <<available, power, volume, mute, source, params, task>>

ReportMute(z) ==
    /\ \E b \in BOOLEAN : mute' = [mute EXCEPT ![z] = Some(b)]
    /\ UNCHANGED <<available, power, volume, max_volume, source, params, task>>

ReportSource(z) ==
    /\ \E s \in Sources : source' = [source EXCEPT ![z] = Some(s)]
    /\ UNCHANGED <<available, power, volume, max_volume, mute, params, task>>

(***************************************************************************)
(* Refreshing: await pioneer.update()                                       *)
(*   pc = "update" while inside the await; the attributes the AVR answers   *)
(*   with arrive as reports meanwhile                                       *)
(***************************************************************************)
\* PioneerZone.async_update: return await self.pioneer.update()
async_update(c) ==
    /\ task[c].pc \in {"idle", "done"}
    /\ task' = [task EXCEPT ![c] =
          [IdleTask EXCEPT !.pc = "update", !.name = "async_update",
                           !.down = ~available]]
    /\ UNCHANGED <<available, store, params>>

\* async_setup_entry: try: await pioneer.update()
initial_update(c) ==
    /\ task[c].pc \in {"idle", "done"}
    /\ task' = [task EXCEPT ![c] =
          [IdleTask EXCEPT !.pc = "update", !.name = "async_setup_entry",
                           !.down = ~available]]
    /\ UNCHANGED <<available, store, params>>

\* pioneer.update() returns
UpdateReturns(c) ==
    /\ task[c].pc = "update"
    /\ task' = [task EXCEPT ![c] =
          [@ EXCEPT !.pc = "done", !.results = Append(@, "None")]]
    /\ UNCHANGED <<available, store, params>>

\* what a raising pioneer.update() leaves of the call: async_update has no
\* handler, so the exception leaves it as raised; async_setup_entry logs an
\* error and raises PlatformNotReady
UpdateFailure(t) ==
    IF t.name = "async_setup_entry"
    THEN [t EXCEPT !.pc = "done", !.errors = @ + 1, !.exc = "PlatformNotReady"]
    ELSE [t EXCEPT !.pc = "done", !.exc = "Exception"]

\* pioneer.update() raises
UpdateRaises(c) ==
    /\ task[c].pc = "update"
    /\ task' = [task EXCEPT ![c] =
          UpdateFailure([@ EXCEPT !.results = Append(@, "raise")])]
    /\ UNCHANGED <<available, store, params>>

(***************************************************************************)
(* Availability gates and capabilities (pure reads of the attributes)       *)
(***************************************************************************)
\* dict.get(zone): None for a key the dictionary does not hold
Get(d, z) == IF z \in DOMAIN d THEN d[z] ELSE None

\* self.pioneer.power.get(zone) as a condition: true for a stored True only
PowerOn(zone) == Get(power, zone) = Some(TRUE)

\* PioneerEntityBase.available
PioneerEntityBase_available(zone) ==
    available /\ (zone = "none" \/ (zone \in zones /\ PowerOn(zone)))

\* PioneerZone.available
PioneerZone_available_inherited(zone) == PioneerEntityBase_available(zone)
PioneerZone_available(zone) == available

\* the list comprehension of PioneerTunerEntity.available
TunerZones ==
    {z \in DOMAIN source : source[z] = Some(SOURCE_TUNER) /\ PowerOn(z)}

\* PioneerTunerEntity.available
PioneerTunerEntity_available_own(zone) ==
    PioneerEntityBase_available(zone) /\ zone \in TunerZones
PioneerTunerEntity_available(zone) ==
    IF ~PioneerEntityBase_available(zone) THEN FALSE ELSE TunerZones # {}

\* pioneer.power.get(self.zone) is not None, and likewise for the others
HasPowerTruthy(zone) == Get(power, zone) = Some(TRUE)
HasPower(zone) == Get(power, zone) # None
HasVolume(zone) == Get(volume, zone) # None
HasMute(zone) == Get(mute, zone) # None
HasSource(zone) == Get(source, zone) # None

\* self.zone == Zones.Z1 and not pioneer.get_params().get(PARAM_DISABLE_AUTO_QUERY)
SoundModeCondPowered(zone) ==
    zone = "Z1" /\ ~params.disable_auto_query /\ HasPower(zone)
SoundModeCond(zone) == zone = "Z1" /\ ~params.disable_auto_query

\* pioneer.source.get(self.zone) == SOURCE_TUNER
TunerSelectedAnyZone(zone) == TunerZones # {}
TunerSelected(zone) == Get(source, zone) = Some(SOURCE_TUNER)

\* a stored int as a python condition: None and 0 are false
Truthy(x) == x # None /\ x[1] # 0

\* the float a true division yields, kept exact as numerator and denominator
Ratio(n, d) == [num |-> n, den |-> d]

\* PioneerZone.volume_level:
\*   volume / max_volume if (volume and max_volume) else float(0)
volume_level(zone) ==
    LET vol == Get(volume, zone)
        max == Get(max_volume, zone)
    IN IF Truthy(vol) /\ Truthy(max) THEN Ratio(vol[1], max[1]) ELSE Ratio(0, 1)

\* the frontend reads the volume_level property of the zone's entity
ReadVolumeLevel(c, z) ==
    /\ task[c].pc \in {"idle", "done"}
    /\ task' = [task EXCEPT ![c] =
          [IdleTask EXCEPT !.pc = "done", !.name = "volume_level",
                           !.down = ~available, !.value = Some(volume_level(z))]]
    /\ UNCHANGED <<available, store, params>>

\* PioneerZone.supported_features
supported_features(zone) ==
    (IF HasPower(zone) THEN {"TURN_ON", "TURN_OFF"} ELSE {})
    \cup (IF HasVolume(zone) THEN {"VOLUME_SET", "VOLUME_STEP"} ELSE {})
    \cup (IF HasMute(zone) THEN {"VOLUME_MUTE"} ELSE {})
    \cup (IF HasSource(zone) THEN {"SELECT_SOURCE"} ELSE {})
    \cup (IF SoundModeCond(zone) THEN {"SELECT_SOUND_MODE"} ELSE {})
    \cup (IF TunerSelected(zone)
          THEN {"PREVIOUS_TRACK", "NEXT_TRACK"} ELSE {})

(***************************************************************************)
(* Specifications                                                           *)
(***************************************************************************)
\* one service call at a time running a command, the device session
\* changing availability underneath it
Next ==
    \/ \E c \in Solo : pioneer_command(c)
    \/ \E c \in Solo : async_turn_on(c)
    \/ \E c \in Solo : async_turn_off(c)
    \/ \E c \in Solo : async_select_source(c)
    \/ \E c \in Solo : async_volume_up(c)
    \/ \E c \in Solo : async_volume_down(c)
    \/ \E c \in Solo : async_media_previous_track(c)
    \/ \E c \in Solo : async_media_next_track(c)
    \/ \E c \in Solo, z \in zones : async_set_volume_level(c, z)
    \/ \E c \in Solo : async_mute_volume(c)
    \/ \E c \in Solo : async_select_sound_mode(c)
    \/ \E c \in Solo : async_send_command(c)
    \/ \E c \in Solo : async_set_panel_lock(c)
    \/ \E c \in Solo : async_set_remote_lock(c)
    \/ \E c \in Solo : async_set_dimmer(c)
    \/ \E c \in Solo : async_set_tone_settings(c)
    \/ \E c \in Solo : async_select_tuner_band(c)
    \/ \E c \in Solo : async_set_fm_tuner_frequency(c)
    \/ \E c \in Solo : async_set_am_tuner_frequency(c)
    \/ \E c \in Solo : async_select_tuner_preset(c)
    \/ \E c \in Solo : async_set_channel_levels(c)
    \/ \E c \in Solo : Test(c)
    \/ \E c \in Solo : Return(c)
    \/ \E c \in Solo : Raise(c)
    \/ \E c \in Solo : Wake(c)
    \/ SetAvailable

Spec == Init /\ [][Next]_vars

\* the device session reporting attributes, no command running
NextZones ==
    \/ \E z \in zones : ReportPower(z)
    \/ \E z \in zones : ReportVolume(z)
    \/ \E z \in zones : ReportMaxVolume(z)
    \/ \E z \in zones : ReportMute(z)
    \/ \E z \in zones : ReportSource(z)
    \/ SetAvailable

\* the event loop resumes every coroutine whose await has completed, and
\* every aw_f() and asyncio.sleep() completes
Fairness ==
    \A c \in Solo :
        /\ WF_vars(Test(c))
        /\ WF_vars(Return(c) \/ Raise(c))
        /\ WF_vars(Wake(c))

SpecLive == Init /\ [][Next]_vars /\ Fairness

\* a service call running commands while the device session reports
NextDevice ==
    \/ Next
    \/ \E z \in zones : ReportPower(z)
    \/ \E z \in zones : ReportVolume(z)

\* the same, with the caller free to cancel the call
NextCancel ==
    \/ NextDevice
    \/ \E c \in Solo : Cancel(c)

InitDevice ==
    /\ Init
    /\ params = [volume_step_only |-> FALSE, disable_auto_query |-> FALSE]
    /\ max_volume = [z \in zones |-> Some(MaxVolume)]

SpecDevice == InitDevice /\ [][NextDevice]_vars

SpecCancel == InitDevice /\ [][NextCancel]_vars

\* several service calls running commands at once on the event loop
NextConcurrent ==
    \/ \E c \in Calls : pioneer_command(c)
    \/ \E c \in Calls : async_media_next_track(c)
    \/ \E c \in Calls : async_volume_up(c)
    \/ \E c \in Calls : async_turn_on(c)
    \/ \E c \in Calls : Test(c)
    \/ \E c \in Calls : Return(c)
    \/ \E c \in Calls : Raise(c)
    \/ \E c \in Calls : Wake(c)

InitConcurrent ==
    /\ Init
    /\ available
    /\ params = [volume_step_only |-> FALSE, disable_auto_query |-> FALSE]
    /\ max_volume = [z \in zones |-> None]

SpecConcurrent == InitConcurrent /\ [][NextConcurrent]_vars

\* the raw values the AVR may have reported for volume and max_volume
RawLevels == 0 .. MaxRawVolume

\* every stored volume state, those with volume > max_volume included
InitLevel ==
    /\ available = TRUE
    /\ power = [z \in zones |-> None]
    /\ volume \in [zones -> {None} \cup {Some(v) : v \in RawLevels}]
    /\ max_volume \in [zones -> {None} \cup {Some(v) : v \in RawLevels}]
    /\ mute = [z \in zones |-> None]
    /\ source = [z \in zones |-> None]
    /\ params = [volume_step_only |-> FALSE, disable_auto_query |-> FALSE]
    /\ task = [c \in Calls |-> IdleTask]

NextLevel == \E c \in Solo, z \in zones : ReadVolumeLevel(c, z)

SpecLevel == InitLevel /\ [][NextLevel]_vars

InitZones == Init /\ ~params.volume_step_only

SpecZones == InitZones /\ [][NextZones]_vars

\* the device session reporting while refreshes run and fail
NextRefresh ==
    \/ \E z \in zones : ReportPower(z)
    \/ \E z \in zones : ReportVolume(z)
    \/ \E z \in zones : ReportMute(z)
    \/ \E z \in zones : ReportSource(z)
    \/ SetAvailable
    \/ \E c \in Solo : async_update(c)
    \/ \E c \in Solo : initial_update(c)
    \/ \E c \in Solo : UpdateReturns(c)
    \/ \E c \in Solo : UpdateRaises(c)

InitRefresh ==
    /\ Init
    /\ params = [volume_step_only |-> FALSE, disable_auto_query |-> FALSE]
    /\ max_volume = [z \in zones |-> None]

SpecRefresh == InitRefresh /\ [][NextRefresh]_vars

(***************************************************************************)
(* The outcomes of one execution, as the caller sees them                   *)
(***************************************************************************)
\* pioneer_command returned without raising
Confirmed(t) == t.pc = "done" /\ t.exc = "none"

\* the failure that stems from the error of line 72 (count >= max_count)
Exhausted(t) ==
    /\ t.pc = "done"
    /\ t.exc = "ServiceValidationError"
    /\ t.cause = "ServiceValidationError"
    /\ t.msg.detail = "unavailable"

\* the failure that wraps an exception raised by aw_f
Rejected(t) ==
    /\ t.pc = "done"
    /\ t.exc = "ServiceValidationError"
    /\ t.cause = "fault"
    /\ t.msg.detail = "fault"

\* the call got past the binding of its arguments, so the body ran
Ran(t) == t.pc # "idle" /\ t.exc # "TypeError"

\* results is k-1 times False followed by one accepted value
AcceptsAt(t, k) ==
    /\ Len(t.results) = k
    /\ \A i \in 1 .. (k - 1) : t.results[i] = "False"
    /\ t.results[k] \notin {"False", "raise"}

AllFalse(t) == \A i \in DOMAIN t.results : t.results[i] = "False"

\* results is j-1 times False followed by a raised exception
RaisesAt(t, j) ==
    /\ Len(t.results) = j
    /\ \A i \in 1 .. (j - 1) : t.results[i] = "False"
    /\ t.results[j] = "raise"

(***************************************************************************)
(* Claims                                                                   *)
(***************************************************************************)

\* C1: an execution whose action answers False on attempts 1..k-1 and accepts
\* on attempt k (1 <= k <= max_count) returns without error after exactly k
\* invocations and k-1 delays; an invocation is in flight only when every
\* earlier result is known and one delay has elapsed after each of them.
C1_AcceptOnKth ==
    \A c \in Calls :
        LET t == task[c] IN
        /\ \A k \in 1 .. MaxMaxCount :
              (t.pc = "done" /\ Ran(t) /\ k <= t.max_count /\ AcceptsAt(t, k))
                  => (Confirmed(t) /\ t.invoked = k /\ t.slept = k - 1)
        /\ t.pc = "await"
              => (Len(t.results) = t.invoked - 1 /\ t.slept = t.invoked - 1)
        /\ t.pc \in {"test", "sleep", "done"} => Len(t.results) = t.invoked

C1_Witness ==
    \E c \in Calls :
        /\ Confirmed(task[c]) /\ AcceptsAt(task[c], 3)
        /\ task[c].invoked = 3 /\ task[c].slept = 2

\* C2: with max_count = N >= 1 and False returned by every attempt, the
\* execution ends with the exhaustion failure after exactly N invocations,
\* and at no point has it invoked the action more than N times.
C2_ExhaustedAfterN ==
    \A c \in Calls :
        LET t == task[c] IN
        (Ran(t) /\ t.max_count >= 1 /\ AllFalse(t)) =>
            /\ t.invoked <= t.max_count
            /\ t.pc = "done" => (Exhausted(t) /\ t.invoked = t.max_count)

C2_Witness ==
    \E c \in Calls :
        /\ Exhausted(task[c]) /\ AllFalse(task[c])
        /\ task[c].max_count = 3 /\ task[c].invoked = 3

\* C3: a command that media_player.py issues without repeat invokes its
\* action at most once per call, whatever the action returns.
C3_SingleAtMostOnce ==
    \A c \in Calls : task[c].intent = "single" => task[c].invoked <= 1

\* C4: when the action raises on attempt j, the execution ends at once with
\* the failure wrapping the raised exception: the raising attempt is the last
\* invocation and no delay follows it.
C4_FaultFailsFast ==
    \A c \in Calls :
        LET t == task[c]
            j == Len(t.results) IN
        (j >= 1 /\ RaisesAt(t, j)) =>
            /\ Rejected(t)
            /\ t.invoked = j
            /\ t.slept = j - 1

C4_Witness ==
    \E c \in Calls :
        /\ RaisesAt(task[c], 2) /\ Rejected(task[c])
        /\ task[c].invoked = 2 /\ task[c].slept = 1

\* C5: a state-changing command (issued with repeat=True) has invoked its
\* action at least once by the time its call ends.
C5_RepeatAttempts ==
    \A c \in Calls :
        (task[c].intent = "repeat" /\ task[c].pc = "done")
            => task[c].invoked >= 1

\* C6: a command executed while pioneer.available is false never invokes its
\* action and ends with the Rejected failure.
C6_UnavailableRejected ==
    \A c \in Calls :
        LET t == task[c] IN
        (Ran(t) /\ t.down /\ t.max_count >= 1) =>
            /\ t.invoked = 0
            /\ t.pc = "done" => Rejected(t)

\* C7: the failure of an execution that reached its attempt bound names the
\* command, carries the number of attempts, and is the exhaustion error
\* itself rather than a wrapping of it.
C7_ExhaustedCarriesCount ==
    \A c \in Calls :
        LET t == task[c] IN
        (Exhausted(t) /\ t.max_count >= 1) =>
            /\ t.msg.command = t.name
            /\ "attempts" \in DOMAIN t.msg
            /\ t.msg.text = "unavailable"
            /\ t.cause = "none"

\* C8: for every zone, PioneerZone.available equals pioneer.available,
\* whatever the zone's power.
C8_ZoneAvailableIsDevice ==
    \A z \in zones : PioneerZone_available(z) = available

C8_Witness ==
    /\ available /\ power["Z1"] = Some(FALSE) /\ power["Z2"] = None
    /\ PioneerZone_available("Z1") /\ PioneerZone_available("Z2")

\* C9 as stated: the tuner gate of zone z is true exactly when the device is
\* available, z is on and z's own source is the tuner.
C9_TunerGateOwnSource ==
    \A z \in zones :
        PioneerTunerEntity_available(z)
            = (available /\ power[z] = Some(TRUE) /\ source[z] = Some(SOURCE_TUNER))

\* C9 amended: the tuner gate of an entity is true exactly when the device is
\* available, the entity has no zone or its zone is a powered-on zone of the
\* AVR, and some zone of the AVR, not necessarily the entity's, is powered on
\* with the tuner as its source.
C9_TunerGateAnyZone ==
    \A e \in EntityZones :
        PioneerTunerEntity_available(e)
            = /\ available
              /\ e = "none" \/ (e \in zones /\ power[e] = Some(TRUE))
              /\ \E z \in zones :
                    power[z] = Some(TRUE) /\ source[z] = Some(SOURCE_TUNER)

C9_Witness ==
    /\ available
    /\ power["Z1"] = Some(TRUE) /\ source["Z1"] = Some("01")
    /\ power["Z2"] = Some(TRUE) /\ source["Z2"] = Some(SOURCE_TUNER)
    /\ PioneerTunerEntity_available("Z1")

\* C10: for every zone, TURN_ON/TURN_OFF are granted iff a power value is
\* stored, VOLUME_SET/VOLUME_STEP iff a volume is stored, VOLUME_MUTE iff a
\* mute value is stored and SELECT_SOURCE iff a source is stored; a stored
\* False or 0 counts as present.
C10_PresenceCapabilities ==
    \A z \in zones :
        LET f == supported_features(z) IN
        /\ "TURN_ON" \in f <=> power[z] \in {Some(TRUE), Some(FALSE)}
        /\ "TURN_OFF" \in f <=> power[z] \in {Some(TRUE), Some(FALSE)}
        /\ "VOLUME_SET" \in f <=> volume[z] \in {Some(v) : v \in 0 .. MaxVolume}
        /\ "VOLUME_STEP" \in f <=> volume[z] \in {Some(v) : v \in 0 .. MaxVolume}
        /\ "VOLUME_MUTE" \in f <=> mute[z] \in {Some(TRUE), Some(FALSE)}
        /\ "SELECT_SOURCE" \in f <=> source[z] \in {Some(s) : s \in Sources}

C10_Witness ==
    /\ power["Z1"] = Some(FALSE) /\ volume["Z1"] = Some(0)
    /\ mute["Z1"] = Some(FALSE) /\ source["Z1"] = None
    /\ supported_features("Z1") \cap
         {"TURN_ON", "TURN_OFF", "VOLUME_SET", "VOLUME_STEP", "VOLUME_MUTE",
          "SELECT_SOURCE"}
       = {"TURN_ON", "TURN_OFF", "VOLUME_SET", "VOLUME_STEP", "VOLUME_MUTE"}

\* C11: SELECT_SOUND_MODE is granted to a zone iff the zone is Z1 and the
\* disable-auto-query parameter is off, whatever is stored for the zone; it
\* is granted to Z1 with nothing reported and never to another zone.
C11_SoundModeStatic ==
    \A z \in zones :
        /\ "SELECT_SOUND_MODE" \in supported_features(z)
              <=> (z = "Z1" /\ params.disable_auto_query = FALSE)
        /\ z # "Z1" => "SELECT_SOUND_MODE" \notin supported_features(z)

C11_Witness ==
    /\ ~params.disable_auto_query
    /\ power["Z1"] = None /\ volume["Z1"] = None /\ mute["Z1"] = None
    /\ source["Z1"] = None
    /\ power["Z2"] = Some(TRUE) /\ source["Z2"] = Some("01")
    /\ "SELECT_SOUND_MODE" \in supported_features("Z1")
    /\ "SELECT_SOUND_MODE" \notin supported_features("Z2")

\* C12: PREVIOUS_TRACK and NEXT_TRACK are granted to a zone, always together,
\* iff that zone's stored source is the tuner, whatever its power and
\* whatever the other zones' sources.
C12_TrackSeekOwnTuner ==
    \A z \in zones :
        LET f == supported_features(z) IN
        /\ "PREVIOUS_TRACK" \in f <=> source[z] = Some(SOURCE_TUNER)
        /\ "NEXT_TRACK" \in f <=> "PREVIOUS_TRACK" \in f

C12_Witness ==
    /\ source["Z1"] = Some(SOURCE_TUNER) /\ power["Z1"] = Some(FALSE)
    /\ source["Z2"] = Some("01") /\ power["Z2"] = Some(TRUE)
    /\ {"PREVIOUS_TRACK", "NEXT_TRACK"} \subseteq supported_features("Z1")
    /\ {"PREVIOUS_TRACK", "NEXT_TRACK"} \cap supported_features("Z2") = {}

\* the pioneer.update() of the call failed
RefreshFailed(t) ==
    /\ t.name \in {"async_update", "async_setup_entry"}
    /\ t.pc = "done" /\ t.results = <<"raise">>

\* C13: once a power, volume, mute or source value is stored for a zone, the
\* capability it grants is in the zone's features after every later step:
\* other reports, a failed refresh, a change of availability.
C13_CapabilitiesMonotonic ==
    [][\A z \in zones :
          /\ power[z] # None
                => {"TURN_ON", "TURN_OFF"} \subseteq supported_features(z)'
          /\ volume[z] # None
                => {"VOLUME_SET", "VOLUME_STEP"} \subseteq supported_features(z)'
          /\ mute[z] # None => "VOLUME_MUTE" \in supported_features(z)'
          /\ source[z] # None => "SELECT_SOURCE" \in supported_features(z)'
      ]_vars

C13_Witness ==
    /\ ~available
    /\ power["Z1"] = Some(FALSE) /\ volume["Z1"] = Some(0)
    /\ mute["Z1"] = Some(FALSE) /\ source["Z1"] = Some("01")
    /\ \E c \in Calls : RefreshFailed(task[c])
    /\ {"TURN_ON", "TURN_OFF", "VOLUME_SET", "VOLUME_STEP", "VOLUME_MUTE",
        "SELECT_SOURCE"} \subseteq supported_features("Z1")

\* the stored attribute named f
Attribute(f) ==
    CASE f = "power" -> power
      [] f = "volume" -> volume
      [] f = "max_volume" -> max_volume
      [] f = "mute" -> mute
      [] f = "source" -> source

Attributes == {"power", "volume", "max_volume", "mute", "source"}

\* C14: a report overwrites the attribute of the zone it carries and nothing
\* else: every other attribute of that zone and every attribute of every
\* other zone keeps its value, and no stored value becomes unknown.
C14_ApplyFrame ==
    [][/\ Cardinality({<<z, f>> \in zones \X Attributes :
                          Attribute(f)'[z] # Attribute(f)[z]}) <= 1
       /\ \A z \in zones, f \in Attributes :
             Attribute(f)[z] # None => Attribute(f)'[z] # None
      ]_vars

C14_Witness ==
    /\ power["Z1"] = Some(TRUE) /\ volume["Z1"] = Some(MaxVolume)
    /\ source["Z2"] = Some(SOURCE_TUNER) /\ mute["Z2"] = None

\* C15: a refresh that fails leaves every stored attribute as it was and is
\* handled softly: an error is logged and no exception leaves the refresh.
C15_RefreshFailsSoft ==
    [][\A c \in Calls :
          (task[c].pc = "update" /\ RefreshFailed(task'[c])) =>
              /\ UNCHANGED store
              /\ task'[c].errors > task[c].errors
              /\ task'[c].exc = "none"
      ]_vars

\* the call is a run of pioneer_command's body
IsCommand(t) == t.intent # "" /\ Ran(t)

\* C16: the executor sleeps (and warns) only after a False attempt that
\* leaves attempts to make, so an execution that made n attempts has slept
\* n-1 times and warned as often when it ends.
C16_DelayOnlyBetweenAttempts ==
    \A c \in Calls :
        LET t == task[c] IN
        IsCommand(t) =>
            /\ t.pc = "sleep" =>
                  (t.results[Len(t.results)] = "False" /\ t.invoked < t.max_count)
            /\ (t.pc = "done" /\ t.invoked >= 1) =>
                  (t.slept = t.invoked - 1 /\ t.warned = t.slept)

\* C17: a returned value other than False (None, True, 0, a response) ends
\* the execution at that attempt: it is the last result, the call returns
\* without error, and no sleep or invocation follows it.
C17_OnlyFalseRetries ==
    \A c \in Calls :
        LET t == task[c] IN
        IsCommand(t) =>
            \A i \in DOMAIN t.results :
                t.results[i] \in Returned \ {"False"} =>
                    /\ i = Len(t.results)
                    /\ Confirmed(t)
                    /\ t.invoked = i
                    /\ t.slept = i - 1

C17_Witness ==
    \E c \in Calls :
        /\ IsCommand(task[c]) /\ task[c].results = <<"False", "0">>
        /\ Confirmed(task[c]) /\ task[c].invoked = 2 /\ task[c].slept = 1

\* the number of False results of the call
Falses(t) == Cardinality({i \in DOMAIN t.results : t.results[i] = "False"})

\* C18: with several executions interleaved, each keeps its own count: its
\* count is the number of its own sleeps, it invokes its action at most its
\* own max_count times, and its outcome follows from its own results alone.
C18_IndependentCalls ==
    \A c \in Calls :
        LET t == task[c]
            n == Len(t.results) IN
        IsCommand(t) =>
            /\ t.count = t.slept
            /\ t.slept \in {Falses(t), Falses(t) - 1}
            /\ t.invoked = 0 \/ t.invoked <= t.max_count
            /\ t.pc = "done" =>
                  /\ Confirmed(t) <=> (n >= 1 /\ t.results[n] \in Returned \ {"False"})
                  /\ Rejected(t) <=> (n >= 1 /\ t.results[n] = "raise")
                  /\ Exhausted(t) <=> (AllFalse(t) /\ n >= t.max_count)

C18_Witness ==
    /\ task["t1"].pc = "sleep" /\ task["t1"].count = 2 /\ task["t1"].invoked = 3
    /\ task["t2"].pc = "await" /\ task["t2"].count = 0 /\ task["t2"].invoked = 1
    /\ task["t1"].max_count # task["t2"].max_count

\* the call c moved: something of its record other than the availability
\* history changed
TaskStep(c) == [task'[c] EXCEPT !.down = task[c].down] # task[c]

\* C19: no step of a command execution (binding, attempt, result, delay,
\* success, exhaustion, fault) changes pioneer.available or a stored
\* attribute: they change only in steps of the device session.
C19_ExecutorReadOnly ==
    [][(\E c \in Calls : TaskStep(c)) => UNCHANGED <<available, store>>]_vars

C19_Witness ==
    /\ Confirmed(task["t1"]) /\ task["t1"].invoked = 2
    /\ power["Z1"] = Some(TRUE) /\ volume["Z2"] = Some(0)
    /\ available

\* the call is inside pioneer_command's body
Running(t) == t.pc \in {"test", "await", "sleep"}

\* C20: every execution ends, whatever max_count (0 and negative included)
\* and whatever the action answers, provided each invocation and each sleep
\* completes: the work left is bounded by max_count at every point, and a
\* running execution leads to one that is done with a definitive outcome.
C20_Terminates ==
    /\ [](\A c \in Calls :
            Running(task[c]) =>
                /\ task[c].count <= task[c].max_count \/ task[c].count = 0
                /\ task[c].invoked <= task[c].count + 1)
    /\ \A c \in Calls :
          Running(task[c]) ~>
              (Confirmed(task[c]) \/ Exhausted(task[c]) \/ Rejected(task[c]))

C20_Witness ==
    \E c \in Calls :
        /\ Exhausted(task[c]) /\ task[c].max_count < 0 /\ task[c].invoked = 0

\* C21: cancelling an execution suspended in an attempt or in the delay ends
\* it there with the cancellation itself: the step changes no stored
\* attribute, the call is done with CancelledError (no Exhausted, Rejected or
\* normal outcome), and from then on it starts no attempt and no delay.
C21_CancelAborts ==
    [][\A c \in Calls :
          task'[c].cancelled =>
              /\ task[c].cancelled \/ task[c].pc \in {"await", "sleep"}
              /\ task'[c].pc = "done"
              /\ task'[c].exc = "CancelledError"
              /\ task'[c].cause = "none"
              /\ task'[c].invoked = task[c].invoked
              /\ task'[c].slept = task[c].slept
              /\ task'[c].count = task[c].count
              /\ task'[c].results = task[c].results
              /\ ~task[c].cancelled => UNCHANGED <<available, store>>
      ]_vars

\* cancelled inside the second attempt, the device having reported before
C21_Witness ==
    /\ task["t1"].cancelled /\ task["t1"].exc = "CancelledError"
    /\ task["t1"].results = <<"False">> /\ task["t1"].invoked = 2
    /\ task["t1"].slept = 1
    /\ power["Z1"] = Some(TRUE) /\ volume["Z1"] = Some(1)

\* 0 <= q <= 1 for a ratio q
InUnit(q) == q.den > 0 /\ 0 <= q.num /\ q.num <= q.den

\* C22: whatever is stored for a zone, volume_level is 0 when the volume or
\* the maximum volume is unknown or zero and volume/max_volume otherwise, and
\* every value read from it lies within 0..1, stored states with
\* volume > max_volume included.
C22_VolumeLevelInUnit ==
    /\ \A z \in zones :
          volume_level(z) =
              IF volume[z] \in {None, Some(0)} \/ max_volume[z] \in {None, Some(0)}
              THEN Ratio(0, 1)
              ELSE Ratio(volume[z][1], max_volume[z][1])
    /\ \A c \in Calls :
          task[c].name = "volume_level" => InUnit(task[c].value[1])

\* C23: an execution of pioneer_command's body that ends without having been
\* cancelled either returns (exactly when its last attempt returned a value
\* other than False) or raises ServiceValidationError "AVR command <name>
\* failed: ..." naming its command: with the action's exception as cause when
\* the last attempt raised, and with the "unavailable" error of the exhausted
\* loop as cause otherwise; no other exception leaves it.
C23_FailuresWrapped ==
    \A c \in Calls :
        LET t == task[c]
            n == Len(t.results) IN
        (IsCommand(t) /\ t.pc = "done" /\ ~t.cancelled) =>
            /\ t.exc \in {"none", "ServiceValidationError"}
            /\ t.exc = "none" <=> (n >= 1 /\ t.results[n] \in Returned \ {"False"})
            /\ t.exc = "ServiceValidationError" =>
                  /\ t.msg.command = t.name /\ t.name # ""
                  /\ t.msg.text = "failed"
                  /\ t.cause \in {"fault", "ServiceValidationError"}
            /\ (n >= 1 /\ t.results[n] = "raise") =>
                  (t.exc = "ServiceValidationError" /\ t.cause = "fault"
                      /\ t.msg.detail = "fault")
            /\ (n = 0 \/ (n >= 1 /\ t.results[n] = "False")) =>
                  (t.exc = "ServiceValidationError"
                      /\ t.cause = "ServiceValidationError"
                      /\ t.msg.detail = "unavailable")

\* next_track exhausted after four False answers, the failure re-wrapped
C23_Witness ==
    /\ Exhausted(task["t1"]) /\ task["t1"].name = "tuner_next_preset"
    /\ task["t1"].invoked = DefaultMaxCount
    /\ task["t1"].msg = FailedMsg("tuner_next_preset", "unavailable")
    /\ ~task["t1"].cancelled

====
